---- MODULE Spec2Model ----
(***************************************************************************)
(* A model of ujsonpath: tokenize / parse / JsonPath.find                  *)
(* (src/ujsonpath/ujsonpath.py).                                           *)
(*                                                                         *)
(* A Python str is a sequence of one-character strings.  A document value  *)
(* is a record [t, keys, items, s, n]: t is the JSON type, keys/items the  *)
(* entries of a dict (in iteration order) or the elements of a list, s the *)
(* characters of a string, n a number.                                     *)
(***************************************************************************)
EXTENDS Integers, Sequences, FiniteSets, TLC

VARIABLES
    arg,        \* the structured input the query text was written from
    query,      \* the query string handed to parse
    doc,        \* the document handed to find
    pc,         \* "start", "parsed", "finding", "returned", "raised"
    path,       \* JsonPath.nodes of the compiled path (self.nodes)
    nodes,      \* find's local list of the nodes still to apply
    data,       \* find's local data: a Match, then a list of matches
    root,       \* find's local root
    values,     \* find's local values
    result,     \* the list find returned last
    error,      \* name of the exception that propagated, "" when none
    calls,      \* number of find calls that returned
    first       \* the list the first find call returned

vars == <<arg, query, doc, pc, path, nodes, data, root, values, result,
          error, calls, first>>

(***************************************************************************)
(* Symbols                                                                 *)
(***************************************************************************)
ROOT_SYMBOL == "$"
SELF_SYMBOL == "@"
ESCAPE_SYMBOL == "\\"
WILDCARD_SYMBOL == "*"
DESCENDANT_SYMBOL == <<".", ".">>
QUOTES_SYMBOL == {"\"", "'"}
SPACE_SYMBOL == " "
BRACKET_START_SYMBOL == "["
BRACKET_END_SYMBOL == "]"
EXPRESSION_START_SYMBOL == "("
EXPRESSION_END_SYMBOL == ")"
SLICE_OPERATOR_SYMBOL == ":"
UNION_OPERATOR_SYMBOL == ","
OR_OPERATOR_SYMBOL == "|"
FILTER_OPERATOR_SYMBOL == "?"
IDENTIFIER_SYMBOL == "."

(***************************************************************************)
(* Python str and int builtins the code calls                              *)
(***************************************************************************)
Digits == {"0", "1", "2", "3", "4", "5", "6", "7", "8", "9"}

DigitVal(c) ==
    CASE c = "0" -> 0 [] c = "1" -> 1 [] c = "2" -> 2 [] c = "3" -> 3
      [] c = "4" -> 4 [] c = "5" -> 5 [] c = "6" -> 6 [] c = "7" -> 7
      [] c = "8" -> 8 [] c = "9" -> 9

\* str.strip(chars): drop the leading and the trailing characters in chars
RECURSIVE lstrip(_, _)
lstrip(s, chars) ==
    IF s # <<>> /\ Head(s) \in chars THEN lstrip(Tail(s), chars) ELSE s

RECURSIVE rstrip(_, _)
rstrip(s, chars) ==
    IF s # <<>> /\ s[Len(s)] \in chars
    THEN rstrip(SubSeq(s, 1, Len(s) - 1), chars) ELSE s

strip(s, chars) == lstrip(rstrip(s, chars), chars)

\* str.strip() without argument strips whitespace
Whitespace == {" "}

\* index of the first occurrence of ch in s, 0 when there is none
IndexOf(s, ch) ==
    IF \E i \in 1..Len(s) : s[i] = ch
    THEN CHOOSE i \in 1..Len(s) : s[i] = ch /\ \A j \in 1..(i - 1) : s[j] # ch
    ELSE 0

\* str.split(ch) for a one-character separator
RECURSIVE split(_, _)
split(s, ch) ==
    LET i == IndexOf(s, ch)
    IN  IF i = 0 THEN <<s>>
        ELSE <<SubSeq(s, 1, i - 1)>> \o split(SubSeq(s, i + 1, Len(s)), ch)

\* str.replace(old, new): left to right, non-overlapping; old is not empty
RECURSIVE replace(_, _, _)
replace(s, old, new) ==
    IF Len(s) < Len(old) THEN s
    ELSE IF SubSeq(s, 1, Len(old)) = old
         THEN new \o replace(SubSeq(s, Len(old) + 1, Len(s)), old, new)
         ELSE <<Head(s)>> \o replace(Tail(s), old, new)

endswith(s, ch) == s # <<>> /\ s[Len(s)] = ch

\* int(text) succeeds on optional whitespace, an optional sign and digits
IntBody(s) ==
    LET t == strip(s, Whitespace)
    IN  IF t # <<>> /\ Head(t) \in {"-", "+"} THEN Tail(t) ELSE t

IsIntText(s) ==
    LET b == IntBody(s)
    IN  b # <<>> /\ \A i \in 1..Len(b) : b[i] \in Digits

RECURSIVE DigitsVal(_)
DigitsVal(b) ==
    IF b = <<>> THEN 0
    ELSE 10 * DigitsVal(SubSeq(b, 1, Len(b) - 1)) + DigitVal(b[Len(b)])

int(s) ==
    LET t == strip(s, Whitespace)
    IN  IF Head(t) = "-" THEN 0 - DigitsVal(IntBody(s)) ELSE DigitsVal(IntBody(s))

(***************************************************************************)
(* tokenize (ujsonpath.py 189-262): the generator's output as a list       *)
(***************************************************************************)
TokenizeStart ==
    [token |-> <<>>, escaped |-> FALSE, quoted |-> FALSE, bracketed |-> FALSE,
     expression |-> FALSE, quote_used |-> "", previous_char |-> "",
     out |-> <<>>]

\* one iteration of the loop over the characters of the query
TokenizeChar(st, char) ==
    LET body ==
        IF st.escaped THEN
            [st EXCEPT !.token =
                          IF char \in {UNION_OPERATOR_SYMBOL, SLICE_OPERATOR_SYMBOL,
                                       OR_OPERATOR_SYMBOL}
                          THEN @ \o <<ESCAPE_SYMBOL, char>> ELSE @ \o <<char>>,
                       !.escaped = FALSE]
        ELSE IF st.quoted THEN
            LET tok1 == IF char \in {UNION_OPERATOR_SYMBOL, SLICE_OPERATOR_SYMBOL,
                                     OR_OPERATOR_SYMBOL, ESCAPE_SYMBOL}
                        THEN st.token \o <<ESCAPE_SYMBOL>> ELSE st.token
            IN  IF char = st.quote_used
                THEN [st EXCEPT !.quoted = FALSE,
                                !.token = IF st.expression THEN tok1 \o <<char>>
                                          ELSE tok1]
                ELSE [st EXCEPT !.token = tok1 \o <<char>>]
        ELSE IF char = ESCAPE_SYMBOL THEN
            [st EXCEPT !.escaped = TRUE]
        ELSE IF char \in QUOTES_SYMBOL THEN
            [st EXCEPT !.quote_used = char, !.quoted = ~st.quoted,
                       !.token = IF st.expression THEN @ \o <<char>> ELSE @]
        ELSE IF char = BRACKET_START_SYMBOL THEN
            [st EXCEPT !.out = IF st.token # <<>> THEN @ \o <<st.token>> ELSE @,
                       !.bracketed = TRUE, !.token = <<char>>]
        ELSE IF char = BRACKET_END_SYMBOL THEN
            [st EXCEPT !.out = @ \o <<st.token \o <<char>>>>,
                       !.token = <<>>, !.bracketed = FALSE]
        ELSE IF char = EXPRESSION_START_SYMBOL THEN
            [st EXCEPT !.expression = TRUE, !.token = @ \o <<char>>]
        ELSE IF char = EXPRESSION_END_SYMBOL THEN
            [st EXCEPT !.expression = FALSE, !.token = @ \o <<char>>]
        ELSE IF st.bracketed THEN
            [st EXCEPT !.token = @ \o <<char>>]
        ELSE IF char = ROOT_SYMBOL THEN
            [st EXCEPT !.out = @ \o <<<<char>>>>, !.token = <<>>]
        ELSE IF char = IDENTIFIER_SYMBOL THEN
            [st EXCEPT !.out = IF st.previous_char = IDENTIFIER_SYMBOL
                                THEN @ \o <<<<char, char>>>>
                                ELSE IF st.token # <<>> THEN @ \o <<st.token>>
                                ELSE @,
                       !.token = <<>>]
        ELSE
            [st EXCEPT !.token = @ \o <<char>>]
    IN  [body EXCEPT !.previous_char = char]

RECURSIVE TokenizeLoop(_, _)
TokenizeLoop(st, chars) ==
    IF chars = <<>> THEN st
    ELSE TokenizeLoop(TokenizeChar(st, Head(chars)), Tail(chars))

\* a variant of tokenize without the yield after the loop
tokenizeInLoop(q) == TokenizeLoop(TokenizeStart, strip(q, Whitespace)).out

tokenize(q) ==
    LET st == TokenizeLoop(TokenizeStart, strip(q, Whitespace))
    IN  IF st.token # <<>> THEN st.out \o <<st.token>> ELSE st.out

(***************************************************************************)
(* Nodes.  A node is [type, value]; the value is [op, keys, ints, text]:   *)
(*   op = "None"   no value (Root, Descendant, Wildcard)                   *)
(*   op = "slice"  the integers a slice object is built from               *)
(*   op = "str"    the text of an expression or filter                     *)
(*   op = "list" / "UnionOperator" / "OrOperator"   the keys of a selector *)
(* A key is [int, n, s]: the Python int n, or the Python str s.            *)
(***************************************************************************)
IntKey(i) == [int |-> TRUE, n |-> i, s |-> <<>>]
StrKey(str) == [int |-> FALSE, n |-> 0, s |-> str]

NoValue == [op |-> "None", keys |-> <<>>, ints |-> <<>>, text |-> <<>>]
SliceValue(is) == [op |-> "slice", keys |-> <<>>, ints |-> is, text |-> <<>>]
TextValue(t) == [op |-> "str", keys |-> <<>>, ints |-> <<>>, text |-> t]
KeysValue(o, ks) == [op |-> o, keys |-> ks, ints |-> <<>>, text |-> <<>>]

Node(type, value) == [type |-> type, value |-> value]

RECURSIVE SeqMap(_, _)
SeqMap(F(_), s) == IF s = <<>> THEN <<>> ELSE <<F(Head(s))>> \o SeqMap(F, Tail(s))

RECURSIVE SeqFilter(_, _)
SeqFilter(P(_), s) ==
    IF s = <<>> THEN <<>>
    ELSE (IF P(Head(s)) THEN <<Head(s)>> ELSE <<>>) \o SeqFilter(P, Tail(s))

\* clean_list (360-361)
clean_list(strs) ==
    LET NotExcluded(v) == v # <<>>
        Strip(v) == strip(v, Whitespace)
    IN  SeqMap(Strip, SeqFilter(NotExcluded, strs))

\* the loop of escaped_split (366-370): sections are added to result[idx]
RECURSIVE EscapedSplitLoop(_, _, _, _)
EscapedSplitLoop(sections, res, idx, char) ==
    IF sections = <<>> THEN res
    ELSE LET section == Head(sections)
         IN  EscapedSplitLoop(Tail(sections),
                              [res EXCEPT ![idx] = @ \o section],
                              IF endswith(section, char) THEN idx ELSE idx + 1,
                              char)

\* escaped_split (364-371)
escaped_split(str, char) ==
    LET AddChar(section) ==
            IF endswith(section, ESCAPE_SYMBOL) THEN section \o <<char>> ELSE section
        sections == SeqMap(AddChar, split(str, char))
        empty == [i \in 1..Len(sections) |-> <<>>]
    IN  clean_list(EscapedSplitLoop(sections, empty, 1, char))

\* the chain of str.replace calls that unescapes a key (335-340)
Unescape(val) ==
    replace(replace(replace(replace(val,
        <<ESCAPE_SYMBOL, ESCAPE_SYMBOL>>, <<ESCAPE_SYMBOL>>),
        <<ESCAPE_SYMBOL, UNION_OPERATOR_SYMBOL>>, <<UNION_OPERATOR_SYMBOL>>),
        <<ESCAPE_SYMBOL, OR_OPERATOR_SYMBOL>>, <<OR_OPERATOR_SYMBOL>>),
        <<ESCAPE_SYMBOL, SLICE_OPERATOR_SYMBOL>>, <<SLICE_OPERATOR_SYMBOL>>)

\* the operator and the keys of an identifier, from the pieces the two
\* splits gave (324-342)
IdentifierNode(unions, ors) ==
    LET Key(val) == StrKey(Unescape(strip(val, {SPACE_SYMBOL})))
    IN  IF Len(unions) > 1
        THEN Node("Index", KeysValue("UnionOperator", SeqMap(Key, unions)))
        ELSE IF Len(ors) > 1
        THEN Node("Index", KeysValue("OrOperator", SeqMap(Key, ors)))
        ELSE Node("Index", KeysValue("list", SeqMap(Key, ors)))

\* the split on "|" of the only piece the split on "," gave (327); value[0]
\* of an empty list raises IndexError
IdentifierSplitOr(unions) ==
    IF unions = <<>>
    THEN [err |-> "IndexError", node |-> Node("Index", NoValue)]
    ELSE [err |-> "",
          node |-> IdentifierNode(unions, escaped_split(unions[1], OR_OPERATOR_SYMBOL))]

\* the value of an identifier node from its text (320-345);
\* [err, node]: err names the exception that leaves parse
IdentifierValue(text) == IdentifierSplitOr(escaped_split(text, UNION_OPERATOR_SYMBOL))

\* the node type and the value parse gives a token before it splits an
\* identifier (276-318); [err, type, value, text], text the str value of an
\* identifier
ClassifyWith(token, inner, pieces) ==
    LET Is(type, value) == [err |-> "", type |-> type, value |-> value, text |-> <<>>]
        Identifier(text) == [err |-> "", type |-> "Identifier", value |-> NoValue, text |-> text]
    IN  IF token = <<ROOT_SYMBOL>> THEN Is("Root", NoValue)
        ELSE IF token = DESCENDANT_SYMBOL THEN Is("Descendant", NoValue)
        ELSE IF token[1] = BRACKET_START_SYMBOL /\ token[Len(token)] = BRACKET_END_SYMBOL
        THEN IF IndexOf(replace(token, <<ESCAPE_SYMBOL, SLICE_OPERATOR_SYMBOL>>, <<>>),
                        SLICE_OPERATOR_SYMBOL) # 0
             THEN IF \E i \in 1..Len(pieces) : ~IsIntText(pieces[i])
                  THEN Identifier(inner)
                  ELSE IF Len(pieces) \in 1..3
                  THEN Is("Slice", SliceValue([i \in 1..Len(pieces) |-> int(pieces[i])]))
                  ELSE [err |-> "TypeError", type |-> "Slice", value |-> NoValue,
                        text |-> <<>>]
             ELSE IF IndexOf(token, WILDCARD_SYMBOL) # 0
             THEN Is("Wildcard", NoValue)
             ELSE IF token[2] = EXPRESSION_START_SYMBOL
                     /\ token[Len(token) - 1] = EXPRESSION_END_SYMBOL
             THEN Is("Expression", TextValue(SubSeq(token, 3, Len(token) - 2)))
             ELSE IF token[2] = FILTER_OPERATOR_SYMBOL
                     /\ token[3] = EXPRESSION_START_SYMBOL
                     /\ token[Len(token) - 1] = EXPRESSION_END_SYMBOL
             THEN Is("Filter", TextValue(SubSeq(token, 4, Len(token) - 2)))
             ELSE IF IsIntText(inner)
             THEN Is("Index", KeysValue("list", <<IntKey(int(inner))>>))
             ELSE Identifier(strip(inner, Whitespace))
        ELSE IF strip(token, Whitespace) = <<WILDCARD_SYMBOL>>
        THEN Is("Wildcard", NoValue)
        ELSE Identifier(strip(token, Whitespace))

Classify(token) ==
    LET NonEmpty(i) == i # <<>>
    IN  ClassifyWith(token, SubSeq(token, 2, Len(token) - 1),
                     SeqFilter(NonEmpty, split(SubSeq(token, 2, Len(token) - 1),
                                               SLICE_OPERATOR_SYMBOL)))

\* the split of an identifier's value into keys (320-345), for the node
\* type and value c that 276-318 gave; [err, node]
ParseClassified(c) ==
    IF c.err # "" THEN [err |-> c.err, node |-> Node(c.type, c.value)]
    ELSE IF c.type = "Identifier" THEN IdentifierValue(c.text)
    ELSE [err |-> "", node |-> Node(c.type, c.value)]

\* the node of one token (276-347); [err, node]
ParseToken(token) == ParseClassified(Classify(token))

\* the loop of parse over the tokens (275-347): stops at the first exception
RECURSIVE ParseLoop(_, _)
ParseNext(tokens, ns, r) ==
    IF r.err # "" THEN [err |-> r.err, nodes |-> ns]
    ELSE ParseLoop(Tail(tokens), Append(ns, r.node))

ParseLoop(tokens, ns) ==
    IF tokens = <<>> THEN [err |-> "", nodes |-> ns]
    ELSE ParseNext(tokens, ns, ParseToken(Head(tokens)))

\* parse (265-349)
parse(q) == ParseLoop(tokenize(q), <<>>)

(***************************************************************************)
(* Document values and the objects of the evaluator                        *)
(***************************************************************************)
Null == [t |-> "null", keys |-> <<>>, items |-> <<>>, s |-> <<>>, n |-> 0]
Num(i) == [t |-> "num", keys |-> <<>>, items |-> <<>>, s |-> <<>>, n |-> i]
Str(str) == [t |-> "str", keys |-> <<>>, items |-> <<>>, s |-> str, n |-> 0]
List(vs) == [t |-> "list", keys |-> <<>>, items |-> vs, s |-> <<>>, n |-> 0]
Dict(ks, vs) == [t |-> "dict", keys |-> ks, items |-> vs, s |-> <<>>, n |-> 0]

\* Every evaluator object is [cls, value, path, items]: a Match, a
\* MatchNotFound, or a Python list of such objects (cls = "list").
\* Match.__init__ (139-146): a value that has a .value is unwrapped
Match(value, p) ==
    [cls |-> "Match",
     value |-> IF "cls" \in DOMAIN value THEN value.value ELSE value,
     path |-> p, items |-> <<>>]

\* MatchNotFound (132-136): its class attribute value is None
MatchNotFound == [cls |-> "MatchNotFound", value |-> Null, path |-> "", items |-> <<>>]

PyList(objs) == [cls |-> "list", value |-> Null, path |-> "", items |-> objs]

(***************************************************************************)
(* Python subscription  value[key]  and  value[slice]                      *)
(***************************************************************************)
\* the elements of a list or the characters of a str, as values
Elements(v) ==
    IF v.t = "list" THEN v.items
    ELSE [i \in 1..Len(v.s) |-> Str(<<v.s[i]>>)]

\* value[key]: [err, value], err the exception raised ("" when none)
GetItem(v, key) ==
    IF v.t = "dict" THEN
        IF ~key.int /\ \E i \in 1..Len(v.keys) : v.keys[i] = key.s
        THEN [err |-> "", value |-> v.items[CHOOSE i \in 1..Len(v.keys) : v.keys[i] = key.s]]
        ELSE [err |-> "KeyError", value |-> Null]
    ELSE IF v.t \in {"list", "str"} THEN
        IF ~key.int THEN [err |-> "TypeError", value |-> Null]
        ELSE LET els == Elements(v)
                 i == IF key.n >= 0 THEN key.n + 1 ELSE Len(els) + key.n + 1
             IN  IF i \in 1..Len(els) THEN [err |-> "", value |-> els[i]]
                 ELSE [err |-> "IndexError", value |-> Null]
    ELSE [err |-> "TypeError", value |-> Null]

\* slice(*ints): an absent bound is <<>>, a present one <<n>>
slice(ints) ==
    IF Len(ints) = 1 THEN [start |-> <<>>, stop |-> <<ints[1]>>, step |-> <<>>]
    ELSE IF Len(ints) = 2
    THEN [start |-> <<ints[1]>>, stop |-> <<ints[2]>>, step |-> <<>>]
    ELSE [start |-> <<ints[1]>>, stop |-> <<ints[2]>>, step |-> <<ints[3]>>]

Max2(a, b) == IF a >= b THEN a ELSE b
Min2(a, b) == IF a <= b THEN a ELSE b

RECURSIVE Range(_, _, _)
Range(i, stop, step) ==
    IF (step > 0 /\ i >= stop) \/ (step < 0 /\ i <= stop) THEN <<>>
    ELSE <<i>> \o Range(i + step, stop, step)

\* the 0-based indices a slice selects in a sequence of length len
\* (slice.indices, step # 0)
SliceIndices(sl, len) ==
    LET step == IF sl.step = <<>> THEN 1 ELSE sl.step[1]
        lower == IF step > 0 THEN 0 ELSE 0 - 1
        upper == IF step > 0 THEN len ELSE len - 1
        Norm(x) == IF x < 0 THEN Max2(x + len, lower) ELSE Min2(x, upper)
        start == IF sl.start = <<>> THEN (IF step > 0 THEN lower ELSE upper)
                 ELSE Norm(sl.start[1])
        stop == IF sl.stop = <<>> THEN (IF step > 0 THEN upper ELSE lower)
                ELSE Norm(sl.stop[1])
    IN  Range(start, stop, step)

\* value[slice]: [err, values]
Pick(els, idx) == [i \in 1..Len(idx) |-> els[idx[i] + 1]]

GetSlice(v, sl) ==
    IF v.t \in {"list", "str"} THEN
        IF sl.step = <<0>> THEN [err |-> "ValueError", values |-> <<>>]
        ELSE [err |-> "", values |-> Pick(Elements(v), SliceIndices(sl, Len(Elements(v))))]
    ELSE [err |-> "TypeError", values |-> <<>>]

(***************************************************************************)
(* Node types: get_value                                                   *)
(***************************************************************************)
\* UnionOperator.transform (119-121)
UnionTransform(value) == value

\* a variant of OrOperator.transform that keeps the last value
OrTransformLast(value) == IF value = <<>> THEN value ELSE <<value[Len(value)]>>

\* OrOperator.transform (124-129): value[0] of an empty list raises
\* IndexError, and the return in the finally clause swallows it
OrTransform(value) == IF value = <<>> THEN value ELSE <<value[1]>>

\* a variant of GetItemInt in which no key is converted to an integer
GetItemIntNever(v, val) == [err |-> "ValueError", value |-> Null]

\* data.value[int(val)] (90): [err, value]
GetItemInt(v, val) ==
    IF val.int THEN GetItem(v, val)
    ELSE IF IsIntText(val.s) THEN GetItem(v, IntKey(int(val.s)))
    ELSE [err |-> "ValueError", value |-> Null]

\* the body of the loop of IndexNodeType.get_value (84-93) for one key:
\* the matches it appends
IndexTry(direct, converted) ==
    IF direct.err = "" THEN <<Match(direct.value, "None")>>
    ELSE IF converted.err = "" THEN <<Match(converted.value, "None")>>
    ELSE <<>>

IndexLookup(v, val) == IndexTry(GetItem(v, val), GetItemInt(v, val))

\* a variant of the loop of IndexNodeType.get_value that a key which does
\* not resolve leaves
RECURSIVE IndexLoopLeaving(_, _)
IndexLoopLeaving(v, ks) ==
    IF ks = <<>> \/ IndexLookup(v, Head(ks)) = <<>> THEN <<>>
    ELSE IndexLookup(v, Head(ks)) \o IndexLoopLeaving(v, Tail(ks))

RECURSIVE IndexLoop(_, _)
IndexLoop(v, ks) ==
    IF ks = <<>> THEN <<>> ELSE IndexLookup(v, Head(ks)) \o IndexLoop(v, Tail(ks))

\* IndexNodeType.get_value (78-96)
Transform(op, value) ==
    IF op = "UnionOperator" THEN UnionTransform(value)
    ELSE IF op = "OrOperator" THEN OrTransform(value)
    ELSE value

IndexGetValue(node, dat) ==
    Transform(node.value.op, IndexLoop(dat.value, node.value.keys))

\* a variant of WildcardGetValue in which only a sequence has elements
WildcardGetValueOfLists(dat) ==
    IF dat.value.t = "list"
    THEN [i \in 1..Len(dat.value.items) |-> Match(dat.value.items[i], "None")]
    ELSE <<MatchNotFound>>

\* WildcardNodeType.get_value (42-53)
WildcardGetValue(dat) ==
    LET v == dat.value
    IN  IF v.t \in {"list", "dict"}
        THEN [i \in 1..Len(v.items) |-> Match(v.items[i], "None")]
        ELSE <<MatchNotFound>>

\* SliceNodeType.get_value (60-67): [err, val]
SliceMatches(r) ==
    IF r.err = ""
    THEN [err |-> "", val |-> [i \in 1..Len(r.values) |-> Match(r.values[i], "None")]]
    ELSE IF r.err \in {"KeyError", "TypeError"}
    THEN [err |-> "", val |-> <<MatchNotFound>>]
    ELSE [err |-> r.err, val |-> <<>>]

SliceGetValue(node, dat) == SliceMatches(GetSlice(dat.value, slice(node.value.ints)))

\* a variant of GetValue in which a node type without get_value finds nothing
GetValueNotFound(node, dat, rt) ==
    IF node.type = "Root" THEN [err |-> "", val |-> <<rt>>]
    ELSE IF node.type = "Wildcard" THEN [err |-> "", val |-> WildcardGetValue(dat)]
    ELSE IF node.type = "Slice" THEN SliceGetValue(node, dat)
    ELSE IF node.type = "Index" THEN [err |-> "", val |-> IndexGetValue(node, dat)]
    ELSE [err |-> "", val |-> <<MatchNotFound>>]

\* node.type.get_value(node, data, root): [err, val]
GetValue(node, dat, rt) ==
    IF node.type = "Root" THEN [err |-> "", val |-> <<rt>>]
    ELSE IF node.type = "Wildcard" THEN [err |-> "", val |-> WildcardGetValue(dat)]
    ELSE IF node.type = "Slice" THEN SliceGetValue(node, dat)
    ELSE IF node.type = "Index" THEN [err |-> "", val |-> IndexGetValue(node, dat)]
    ELSE [err |-> "NotImplementedError", val |-> <<>>]

RECURSIVE Concat(_)
Concat(lists) ==
    IF lists = <<>> THEN <<>> ELSE Head(lists).items \o Concat(Tail(lists))

\* a variant of _join_lists that joins nothing
join_lists_kept(value) == value

\* _join_lists (352-357): iterating an element that is no list raises
\* TypeError, and the value is returned as it was
join_lists(value) ==
    IF \E i \in 1..Len(value) : value[i].cls # "list" THEN value
    ELSE Concat(value)

\* the list comprehension of 178 over the results each of the datum gave:
\* the first exception leaves it
FanOut(each) ==
    IF \E i \in 1..Len(each) : each[i].err # ""
    THEN [err |-> each[CHOOSE i \in 1..Len(each) :
                          /\ each[i].err # ""
                          /\ \A j \in 1..(i - 1) : each[j].err = ""].err,
          val |-> <<>>]
    ELSE [err |-> "", val |-> [i \in 1..Len(each) |-> PyList(each[i].val)]]

\* 183-186: the value flattened, and [MatchNotFound()] for an empty one
Flattened(value) == IF value = <<>> THEN <<MatchNotFound>> ELSE value

NodeValue(raw) ==
    IF raw.err # "" THEN raw
    ELSE [err |-> "", val |-> Flattened(join_lists(raw.val))]

\* get_node_value (176-186): [err, val].  Iterating data raises TypeError
\* when it is a Match or a MatchNotFound, and the node type is applied to it.
RECURSIVE get_node_value(_, _, _)
get_node_value(node, dat, rt) ==
    IF dat.cls = "list"
    THEN NodeValue(FanOut([i \in 1..Len(dat.items) |->
                              get_node_value(node, dat.items[i], rt)]))
    ELSE NodeValue(GetValue(node, dat, rt))

\* the list comprehension of find's return (173)
\* a variant of find's return filter that also drops a match whose value
\* is None
RECURSIVE FoundNotNone(_)
FoundNotNone(vals) ==
    IF vals = <<>> THEN <<>>
    ELSE (IF Head(vals).cls = "MatchNotFound" \/ Head(vals).value = Null
          THEN <<>> ELSE <<Head(vals)>>)
         \o FoundNotNone(Tail(vals))

RECURSIVE Found(_)
Found(vals) ==
    IF vals = <<>> THEN <<>>
    ELSE (IF Head(vals).cls = "MatchNotFound" THEN <<>> ELSE <<Head(vals)>>)
         \o Found(Tail(vals))

(***************************************************************************)
(* Operations: parse(query), then JsonPath.find(doc), one step per node    *)
(***************************************************************************)
\* how many times find is called on the compiled path
MaxCalls == 2

\* path = parse(query) (265-349)
Parsed(r) ==
    IF r.err = ""
    THEN /\ path' = r.nodes
         /\ pc' = "parsed"
         /\ error' = error
    ELSE /\ path' = path
         /\ pc' = "raised"
         /\ error' = r.err

Parse ==
    /\ pc = "start"
    /\ Parsed(parse(query))
    /\ UNCHANGED <<arg, query, doc, nodes, data, root, values, result, calls, first>>

\* find, up to its loop (160-164)
FindBegin ==
    /\ pc \in {"parsed", "returned"}
    /\ calls < MaxCalls
    /\ data' = Match(doc, ROOT_SYMBOL)
    /\ root' = data'
    /\ values' = <<>>
    /\ nodes' = path
    /\ pc' = "finding"
    /\ UNCHANGED <<arg, query, doc, path, result, error, calls, first>>

\* one iteration of find's loop (165-171)
Stepped(node_value) ==
    IF node_value.err = ""
    THEN /\ nodes' = Tail(nodes)
         /\ data' = PyList(node_value.val)
         /\ values' = IF Tail(nodes) = <<>> THEN node_value.val ELSE values
         /\ pc' = pc
         /\ error' = error
    ELSE /\ pc' = "raised"
         /\ error' = node_value.err
         /\ UNCHANGED <<nodes, data, values>>

\* a variant of find's loop that consumes the nodes of the compiled path
FindStepConsuming ==
    /\ pc = "finding"
    /\ nodes # <<>>
    /\ Stepped(get_node_value(Head(nodes), data, root))
    /\ path' = Tail(path)
    /\ UNCHANGED <<arg, query, doc, root, result, calls, first>>

\* the loop of find (165-171)
FindStep ==
    /\ pc = "finding"
    /\ nodes # <<>>
    /\ Stepped(get_node_value(Head(nodes), data, root))
    /\ UNCHANGED <<arg, query, doc, path, root, result, calls, first>>

\* find's return (173)
FindReturn ==
    /\ pc = "finding"
    /\ nodes = <<>>
    /\ result' = Found(values)
    /\ first' = IF calls = 0 THEN result' ELSE first
    /\ calls' = calls + 1
    /\ pc' = "returned"
    /\ UNCHANGED <<arg, query, doc, path, nodes, data, root, values, error>>

Next == Parse \/ FindBegin \/ FindStep \/ FindReturn

(***************************************************************************)
(* Inputs.  A query is written from a sequence of segments; a segment      *)
(* records what it stands for (k, keys, n, start, stop) and its text.      *)
(***************************************************************************)
Seg(k, text, keys, n, start, stop) ==
    [k |-> k, text |-> text, keys |-> keys, n |-> n, start |-> start, stop |-> stop]

DigitChar(d) ==
    CASE d = 0 -> "0" [] d = 1 -> "1" [] d = 2 -> "2" [] d = 3 -> "3"
      [] d = 4 -> "4" [] d = 5 -> "5" [] d = 6 -> "6" [] d = 7 -> "7"
      [] d = 8 -> "8" [] d = 9 -> "9"

RECURSIVE NatText(_)
NatText(i) ==
    IF i < 10 THEN <<DigitChar(i)>> ELSE NatText(i \div 10) \o <<DigitChar(i % 10)>>

\* the decimal text of an integer
IntText(i) == IF i < 0 THEN <<"-">> \o NatText(0 - i) ELSE NatText(i)

\* the text of an optional slice bound
OptText(o) == IF o = <<>> THEN <<>> ELSE IntText(o[1])

RECURSIVE Join(_, _)
Join(strs, sep) ==
    IF strs = <<>> THEN <<>>
    ELSE IF Len(strs) = 1 THEN strs[1]
    ELSE strs[1] \o <<sep>> \o Join(Tail(strs), sep)

RootSeg == Seg("root", <<"$">>, <<>>, 0, <<>>, <<>>)
IdSeg(key) == Seg("id", key, <<key>>, 0, <<>>, <<>>)
IdxSeg(i) == Seg("idx", <<"[">> \o IntText(i) \o <<"]">>, <<>>, i, <<>>, <<>>)
WildSeg == Seg("wild", <<"*">>, <<>>, 0, <<>>, <<>>)
BracketWildSeg == Seg("bwild", <<"[", "*", "]">>, <<>>, 0, <<>>, <<>>)
SliceSeg(start, stop) ==
    Seg("slice", <<"[">> \o OptText(start) \o <<":">> \o OptText(stop) \o <<"]">>,
        <<>>, 0, start, stop)
UnionSeg(keys) == Seg("union", <<"[">> \o Join(keys, ",") \o <<"]">>, keys, 0, <<>>, <<>>)
AltSeg(keys) == Seg("alt", <<"[">> \o Join(keys, "|") \o <<"]">>, keys, 0, <<>>, <<>>)
DescSeg == Seg("desc", <<".", ".">>, <<>>, 0, <<>>, <<>>)

\* segments written after a "." when they follow another segment
Dotted(sg) == sg.k \in {"id", "wild", "self", "expr", "filter", "esc"}

RECURSIVE RenderFrom(_, _)
RenderFrom(segs, prev) ==
    IF segs = <<>> THEN <<>>
    ELSE LET sg == Head(segs)
             sep == IF Dotted(sg) /\ prev \notin {"", "desc"} THEN <<".">> ELSE <<>>
         IN  sep \o sg.text \o RenderFrom(Tail(segs), sg.k)

\* the query text of a sequence of segments
Render(segs) == RenderFrom(segs, "")

SeqsUpTo(S, n) == UNION {[1..m -> S] : m \in 0..n}

\* The documents: a store-like fixture and every value nested in it.
Fixture ==
    Dict(<< <<"a">>, <<"b">>, <<"1">>, <<"c">> >>,
         << List(<< Dict(<< <<"a">>, <<"b">> >>, << Str(<<"x", "y">>), Null >>),
                    Dict(<< <<"b">> >>, << Num(7) >>),
                    List(<< Str(<<"x">>) >>) >>),
            Dict(<< <<"a">>, <<"1">>, <<"0">> >>,
                 << Dict(<< <<"1">> >>, << Num(3) >>),
                    List(<< Num(8), Num(9) >>),
                    List(<<>>) >>),
            Str(<<"p", "q">>),
            Dict(<<>>, <<>>) >>)

RECURSIVE SubValues(_)
SubValues(v) == {v} \cup UNION {SubValues(v.items[i]) : i \in 1..Len(v.items)}

Docs == SubValues(Fixture)

\* the state before parse is called on the query written from a
InitWith(a, d) ==
    /\ arg = a
    /\ query = Render(a)
    /\ doc = d
    /\ pc = "start"
    /\ path = <<>>
    /\ nodes = <<>>
    /\ data = PyList(<<>>)
    /\ root = PyList(<<>>)
    /\ values = <<>>
    /\ result = <<>>
    /\ error = ""
    /\ calls = 0
    /\ first = <<>>

\* Paths of the query language: up to MaxSegs segments
MaxSegs == 2

Segs ==
    {RootSeg, IdSeg(<<"a">>), IdSeg(<<"1">>), IdxSeg(0), WildSeg,
     SliceSeg(<<0>>, <<2>>), UnionSeg(<< <<"b">>, <<"a">> >>),
     AltSeg(<< <<"c">>, <<"b">> >>), DescSeg}

Init == \E a \in SeqsUpTo(Segs, MaxSegs) : \E d \in Docs : InitWith(a, d)

Spec == Init /\ [][Next]_vars

(***************************************************************************)
(* What the claims compare the results with                                *)
(***************************************************************************)
\* the values of the matches of a list
ValuesOf(ms) == [i \in 1..Len(ms) |-> ms[i].value]

\* the key a selector segment stands for: a str for an identifier, an int
\* for a bracketed integer
StepKey(sg) == IF sg.k = "idx" THEN IntKey(sg.n) ELSE StrKey(sg.keys[1])

\* direct lookup in a document of maps and sequences: an identifier is a
\* key of a map, a bracketed integer an index of a sequence, and any other
\* container is the wrong one
Direct(v, sg) ==
    IF (sg.k = "idx" /\ v.t = "list") \/ (sg.k # "idx" /\ v.t = "dict")
    THEN GetItem(v, StepKey(sg))
    ELSE [err |-> "TypeError", value |-> Null]

\* subscription value[key] as the implementation language does it (a string
\* is indexed by position like a sequence), and for an identifier that reads
\* as an integer and is no key of the value, subscription by that integer
Retried(v, sg) ==
    IF GetItem(v, StepKey(sg)).err = "" \/ sg.k = "idx" \/ ~IsIntText(sg.keys[1])
    THEN GetItem(v, StepKey(sg))
    ELSE GetItem(v, IntKey(int(sg.keys[1])))

\* nested lookup by a chain of segments; a leading "$" stays at the document
RECURSIVE LookupChain(_, _, _)
LookupChain(Get(_, _), v, segs) ==
    IF segs = <<>> THEN [err |-> "", value |-> v]
    ELSE IF Head(segs).k = "root" THEN LookupChain(Get, v, Tail(segs))
    ELSE IF Get(v, Head(segs)).err # "" THEN Get(v, Head(segs))
    ELSE LookupChain(Get, Get(v, Head(segs)).value, Tail(segs))

\* the values find is to return for a chain: the value looked up, or nothing
ChainValues(Get(_, _), v, segs) ==
    IF LookupChain(Get, v, segs).err = "" THEN <<LookupChain(Get, v, segs).value>>
    ELSE <<>>

(***************************************************************************)
(* C1: paths of "$", bare identifiers and bracketed integers               *)
(***************************************************************************)
MaxSteps == 2

PlainSteps ==
    {IdSeg(<<"a">>), IdSeg(<<"b">>), IdSeg(<<"1">>), IdxSeg(0), IdxSeg(1), IdxSeg(0 - 1)}

PlainChains ==
    {c \in SeqsUpTo(PlainSteps, MaxSteps) : c # <<>>}
    \cup {<<RootSeg>> \o c : c \in SeqsUpTo(PlainSteps, MaxSteps)}

InitPlain == \E a \in PlainChains : \E d \in Docs : InitWith(a, d)

SpecPlain == InitPlain /\ [][Next]_vars

\* C1 as claimed: for a path of an optional leading "$", bare identifiers
\* and bracketed integers, parse and find never raise and find returns
\* exactly the value direct nested lookup by the same keys and indices gives,
\* and nothing when a step of that lookup does not resolve.
C1_DirectLookup ==
    /\ pc # "raised"
    /\ pc = "returned" => ValuesOf(result) = ChainValues(Direct, doc, arg)

\* C1 amended: the same with a lookup in which an identifier that reads as
\* an integer, and is no key of the value at its position, is looked up as
\* that integer index.
C1_RetriedLookup ==
    /\ pc # "raised"
    /\ pc = "returned" => ValuesOf(result) = ChainValues(Retried, doc, arg)

\* find returned the element an integer-shaped identifier selects in a
\* sequence, where direct lookup by the same chain resolves nothing
C1_Witness ==
    /\ pc = "returned"
    /\ Len(result) = 1
    /\ \E i \in 1..Len(arg) : arg[i].k = "id" /\ IsIntText(arg[i].keys[1])
    /\ ChainValues(Direct, doc, arg) = <<>>
    /\ ValuesOf(result) = ChainValues(Retried, doc, arg)

(***************************************************************************)
(* C2: paths with a Descendant node                                        *)
(***************************************************************************)
MaxPrefix == 2

\* the steps before "..": a key, a key no document has, an index, a
\* wildcard, a slice, a union
PrefixSteps ==
    {IdSeg(<<"a">>), IdSeg(<<"z">>), IdxSeg(0), WildSeg,
     SliceSeg(<<0>>, <<2>>), UnionSeg(<<<<"b">>, <<"a">>>>)}

\* a prefix, then ".." or nothing, then a key or nothing
DescPaths ==
    {p \o m \o s : p \in SeqsUpTo(PrefixSteps, MaxPrefix),
                   m \in {<<DescSeg>>, <<>>},
                   s \in {<<>>, <<IdSeg(<<"b">>)>>}}

InitDesc == \E a \in DescPaths : \E d \in Docs : InitWith(a, d)

SpecDesc == InitDesc /\ [][Next]_vars

HasDescendant(ns) == \E i \in 1..Len(ns) : ns[i].type = "Descendant"

\* C2: for a path that contains "..", parse builds a Descendant node, find
\* never gets past that node and never returns a list, and the only error
\* raised is NotImplementedError, whatever the data reaching the node is.
C2_DescendantRaises ==
    (\E i \in 1..Len(arg) : arg[i].k = "desc") =>
        /\ pc # "returned"
        /\ result = <<>>
        /\ pc = "raised" => error = "NotImplementedError"
        /\ pc \in {"parsed", "finding"} => HasDescendant(path)
        /\ pc = "finding" => HasDescendant(nodes)

\* find raised at a Descendant node reached by a fan-out batch that holds a
\* NotFound entry next to a found one
C2_Witness ==
    /\ pc = "raised"
    /\ error = "NotImplementedError"
    /\ nodes # <<>>
    /\ Head(nodes).type = "Descendant"
    /\ data.cls = "list"
    /\ \E i, j \in 1..Len(data.items) :
          data.items[i].cls = "MatchNotFound" /\ data.items[j].cls = "Match"

(***************************************************************************)
(* C3: slices                                                              *)
(***************************************************************************)
MaxBound == 3

\* a bound of a slice: omitted, or an integer
SliceBounds == {<<>>} \cup {<<i>> : i \in (0 - MaxBound)..MaxBound}

\* "[start:stop]" with at most one bound omitted, after "$" or nothing
SlicePaths ==
    {p \o <<SliceSeg(be[1], be[2])>> :
        p \in {<<>>, <<RootSeg>>},
        be \in {x \in SliceBounds \X SliceBounds : x[1] # <<>> \/ x[2] # <<>>}}

InitSlice == \E a \in SlicePaths : \E d \in Docs : InitWith(a, d)

SpecSlice == InitSlice /\ [][Next]_vars

\* a bound counted from the end when negative, and kept within 0..n
Clamp(x, n) == IF x < 0 THEN Max2(x + n, 0) ELSE Min2(x, n)

\* the elements from start (inclusive) to stop (exclusive), an omitted bound
\* unbounded on its side
ExpectedSlice(items, start, stop) ==
    SubSeq(items,
           (IF start = <<>> THEN 0 ELSE Clamp(start[1], Len(items))) + 1,
           IF stop = <<>> THEN Len(items) ELSE Clamp(stop[1], Len(items)))

\* C3: a slice "[start:stop]", either bound possibly omitted, applied to a
\* sequence selects exactly the elements from start (inclusive) to stop
\* (exclusive) in order, negative bounds counting from the end.
C3_SliceSelects ==
    (arg[Len(arg)].k = "slice" /\ doc.t = "list") =>
        /\ pc # "raised"
        /\ pc = "returned" =>
              ValuesOf(result) =
                  ExpectedSlice(doc.items, arg[Len(arg)].start, arg[Len(arg)].stop)

(***************************************************************************)
(* C4: wildcards                                                           *)
(***************************************************************************)
MaxFollow == 2

FollowSteps == {IdSeg(<<"a">>), IdSeg(<<"b">>), IdSeg(<<"1">>), IdxSeg(0)}

\* "*" or "[*]" after "$" or nothing, followed by selectors
WildPaths ==
    {p \o <<w>> \o f : p \in {<<>>, <<RootSeg>>},
                       w \in {WildSeg, BracketWildSeg},
                       f \in SeqsUpTo(FollowSteps, MaxFollow)}

InitWild == \E a \in WildPaths : \E d \in Docs : InitWith(a, d)

SpecWild == InitWild /\ [][Next]_vars

\* what a wildcard selects: the elements of a sequence in order, the values
\* of a map, and nothing of anything else
WildElements(v) == IF v.t \in {"list", "dict"} THEN v.items ELSE <<>>

\* the selectors after the wildcard
Following(segs) ==
    IF Head(segs).k = "root" THEN Tail(Tail(segs)) ELSE Tail(segs)

\* the chain applied to each element by itself, the results concatenated
RECURSIVE EachThenChain(_, _)
EachThenChain(els, segs) ==
    IF els = <<>> THEN <<>>
    ELSE ChainValues(Retried, Head(els), segs) \o EachThenChain(Tail(els), segs)

\* C4: a wildcard yields one match per element of a sequence in order, one
\* per value of a map (a value that is a sequence is one element), none of
\* anything else; the selectors that follow apply to each match by itself
\* and their results are concatenated in the same order.  Nothing raises.
C4_WildcardFansOut ==
    /\ pc # "raised"
    /\ pc = "returned" =>
          ValuesOf(result) = EachThenChain(WildElements(doc), Following(arg))

\* a wildcard over several elements followed by a selector that resolves in
\* some of them and not in others
C4_Witness ==
    /\ pc = "returned"
    /\ Following(arg) # <<>>
    /\ Len(result) >= 2
    /\ Len(result) < Len(WildElements(doc))
    /\ \E i \in 1..Len(doc.items) : doc.items[i].t = "list"

(***************************************************************************)
(* C5, C6: alternation and union selectors                                 *)
(***************************************************************************)
MaxKeys == 3

ListKeys == {<<"a">>, <<"b">>, <<"1">>, <<"0">>}

\* two keys or more
KeyLists == {ks \in SeqsUpTo(ListKeys, MaxKeys) : Len(ks) >= 2}

\* whether, and to what, one key resolves at the position v
Resolved(v, key) == Retried(v, IdSeg(key))

\* the value of the first key that resolves, if any
RECURSIVE FirstResolved(_, _)
FirstResolved(v, keys) ==
    IF keys = <<>> THEN <<>>
    ELSE IF Resolved(v, Head(keys)).err = "" THEN <<Resolved(v, Head(keys)).value>>
    ELSE FirstResolved(v, Tail(keys))

\* the values of the keys that resolve, in the order of the keys
RECURSIVE AllResolved(_, _)
AllResolved(v, keys) ==
    IF keys = <<>> THEN <<>>
    ELSE (IF Resolved(v, Head(keys)).err = "" THEN <<Resolved(v, Head(keys)).value>>
          ELSE <<>>) \o AllResolved(v, Tail(keys))

\* "[k1|k2|...]" after "$" or nothing
InitAlt ==
    \E p \in {<<>>, <<RootSeg>>} : \E ks \in KeyLists : \E d \in Docs :
        InitWith(p \o <<AltSeg(ks)>>, d)

SpecAlt == InitAlt /\ [][Next]_vars

\* C5: an alternation "[k1|...|kn]" applied to a document yields exactly one
\* match, the value of the first key in listed order that resolves there,
\* and no match when no key resolves; later keys never contribute.
C5_AlternationFirst ==
    arg[Len(arg)].k = "alt" =>
        /\ pc # "raised"
        /\ pc \in {"parsed", "finding"} => path[Len(path)].value.op = "OrOperator"
        /\ pc = "returned" =>
              /\ ValuesOf(result) = FirstResolved(doc, arg[Len(arg)].keys)
              /\ Len(result) <= 1

\* the first key does not resolve, and two later ones do: the result is the
\* value of the earlier of the two
C5_Witness ==
    /\ pc = "returned"
    /\ arg[Len(arg)].k = "alt"
    /\ Len(result) = 1
    /\ Len(AllResolved(doc, arg[Len(arg)].keys)) >= 2
    /\ Resolved(doc, arg[Len(arg)].keys[1]).err # ""

\* "[k1,k2,...]" after "$" or nothing
InitUnion ==
    \E p \in {<<>>, <<RootSeg>>} : \E ks \in KeyLists : \E d \in Docs :
        InitWith(p \o <<UnionSeg(ks)>>, d)

SpecUnion == InitUnion /\ [][Next]_vars

\* C6: a union "[k1,...,kn]" applied to a document yields one match for
\* every key that resolves, in the order of the keys in the query; a key
\* that does not resolve contributes nothing and stops nothing.
C6_UnionAll ==
    arg[Len(arg)].k = "union" =>
        /\ pc # "raised"
        /\ pc \in {"parsed", "finding"} => path[Len(path)].value.op = "UnionOperator"
        /\ pc = "returned" =>
              ValuesOf(result) = AllResolved(doc, arg[Len(arg)].keys)

\* a key that does not resolve stands between two that do
C6_Witness ==
    /\ pc = "returned"
    /\ arg[Len(arg)].k = "union"
    /\ Len(arg[Len(arg)].keys) = 3
    /\ Resolved(doc, arg[Len(arg)].keys[1]).err = ""
    /\ Resolved(doc, arg[Len(arg)].keys[2]).err # ""
    /\ Resolved(doc, arg[Len(arg)].keys[3]).err = ""
    /\ Len(result) = 2

(***************************************************************************)
(* C7: escaped keys                                                        *)
(***************************************************************************)
MaxKeyLen == 2

\* an ordinary character and the characters a backslash escapes
KeyChars == {"a", ",", "|", ":", "\\", "."}

EscapedChars == {",", "|", ":", "\\", "."}

EscKeys == {k \in SeqsUpTo(KeyChars, MaxKeyLen) : k # <<>>}

\* the key with a backslash before each of the special characters
RECURSIVE Escape(_)
Escape(key) ==
    IF key = <<>> THEN <<>>
    ELSE (IF Head(key) \in EscapedChars THEN <<"\\", Head(key)>> ELSE <<Head(key)>>)
         \o Escape(Tail(key))

EscSeg(key) == Seg("esc", Escape(key), <<key>>, 0, <<>>, <<>>)

\* the escaped key, after "$" or nothing, on a map that holds the key
InitEscape ==
    \E p \in {<<>>, <<RootSeg>>} : \E k \in EscKeys :
        InitWith(p \o <<EscSeg(k)>>, Dict(<<k>>, <<Num(1)>>))

SpecEscape == InitEscape /\ [][Next]_vars

\* C7: the query that writes a key with a backslash before each comma, pipe,
\* colon, backslash and dot parses to one plain selector whose key is the
\* key, and find returns the value the document holds under that key.
C7_EscapeRoundTrip ==
    arg[Len(arg)].k = "esc" =>
        /\ pc # "raised"
        /\ pc \in {"parsed", "finding", "returned"} =>
              /\ Len(path) = Len(arg)
              /\ path[Len(path)] =
                     Node("Index", KeysValue("list", <<StrKey(arg[Len(arg)].keys[1])>>))
        /\ pc = "returned" => ValuesOf(result) = <<Num(1)>>

(***************************************************************************)
(* C8: "@", expressions and filters                                        *)
(***************************************************************************)
MaxExprLen == 2

ExprTexts == {t \in SeqsUpTo({"x", "1"}, MaxExprLen) : t # <<>>}

SelfSeg == Seg("self", <<"@">>, <<>>, 0, <<>>, <<>>)
ExprSeg(t) == Seg("expr", <<"(">> \o t \o <<")">>, <<>>, 0, <<>>, <<>>)
BracketExprSeg(t) == Seg("bexpr", <<"[", "(">> \o t \o <<")", "]">>, <<>>, 0, <<>>, <<>>)
FilterSeg(t) == Seg("filter", <<"?", "(">> \o t \o <<")">>, <<>>, 0, <<>>, <<>>)
BracketFilterSeg(t) ==
    Seg("bfilter", <<"[", "?", "(">> \o t \o <<")", "]">>, <<>>, 0, <<>>, <<>>)

UnimplementedSegs ==
    {SelfSeg} \cup UNION {{ExprSeg(t), BracketExprSeg(t), FilterSeg(t), BracketFilterSeg(t)} :
                             t \in ExprTexts}

\* one of them after nothing, "$" or a key
InitUnimplemented ==
    \E p \in {<<>>, <<RootSeg>>, <<IdSeg(<<"a">>)>>} : \E u \in UnimplementedSegs :
        \E d \in Docs : InitWith(p \o <<u>>, d)

SpecUnimplemented == InitUnimplemented /\ [][Next]_vars

\* the node type the grammar gives a segment
ExpectedType(k) ==
    IF k = "self" THEN "Self"
    ELSE IF k \in {"expr", "bexpr"} THEN "Expression"
    ELSE "Filter"

\* C8: a query with "@", "(expr)" or "?(expr)", bare or in brackets, parses to
\* a Self, Expression or Filter node, and find on it raises
\* NotImplementedError and never returns a result.
C8_UnimplementedRaise ==
    arg[Len(arg)].k \in {"self", "expr", "bexpr", "filter", "bfilter"} =>
        /\ pc # "returned"
        /\ pc = "raised" => error = "NotImplementedError"
        /\ pc \in {"parsed", "finding"} =>
              /\ Len(path) = Len(arg)
              /\ path[Len(path)].type = ExpectedType(arg[Len(arg)].k)

(***************************************************************************)
(* C9: any query text                                                      *)
(***************************************************************************)
MaxQueryLen == 3

QueryChars == {"a", "0", "[", "]", ":", ",", ".", "\\", "\""}

TextSeg(t) == Seg("text", t, <<>>, 0, <<>>, <<>>)

\* every text of up to MaxQueryLen characters, on the fixture and the
\* sequences in it
InitAny ==
    \E t \in SeqsUpTo(QueryChars, MaxQueryLen) :
        \E d \in {x \in Docs : x = Fixture \/ x.t = "list"} : InitWith(<<TextSeg(t)>>, d)

SpecAny == InitAny /\ [][Next]_vars

\* C9: tokenize and parse return a compiled path for every query text, and
\* find returns a list or raises NotImplementedError: no other exception
\* leaves the core.
C9_OnlyNotImplemented ==
    pc = "raised" => (error = "NotImplementedError" /\ path # <<>>)

(***************************************************************************)
(* C10: find and its inputs                                                *)
(***************************************************************************)
\* C10: no step of find changes the compiled path's nodes or the document,
\* and every call of find after the first returns a result equal to the
\* first call's (the same values in the same order).
C10_FindIsPure ==
    [][/\ pc # "start" => (path' = path /\ doc' = doc)
       /\ (pc' = "returned" /\ calls' > 1) => result' = first]_vars

\* a second call returned several matches of a path of two nodes
C10_Witness ==
    /\ pc = "returned"
    /\ calls >= 2
    /\ Len(path) = 2
    /\ Len(result) >= 2
    /\ result = first

(***************************************************************************)
(* C11: what find returns of the last result set                           *)
(***************************************************************************)
IsFound(m) == m.cls # "MatchNotFound"

\* C11: for a path of at least one node, the list find returns is exactly
\* the entries of the result set of the last node that are no NotFound, in
\* their order; it holds no NotFound, and a match whose value is the
\* document's null is in it like any other.
C11_FoundOnly ==
    (pc = "returned" /\ path # <<>>) =>
        /\ result = SelectSeq(data.items, IsFound)
        /\ \A i \in 1..Len(result) : result[i].cls = "Match"
        /\ \A i \in 1..Len(data.items) :
              (data.items[i].cls = "Match" /\ data.items[i].value = Null) =>
                  \E j \in 1..Len(result) : result[j].value = Null

\* the last result set holds a NotFound next to a match of a null, and find
\* returned the null among other values
C11_Witness ==
    /\ pc = "returned"
    /\ Len(result) >= 2
    /\ \E i \in 1..Len(result) : result[i].value = Null
    /\ \E j \in 1..Len(data.items) : data.items[j].cls = "MatchNotFound"

(***************************************************************************)
(* C12: the tokens of bracketed segments and dotted identifiers            *)
(***************************************************************************)
MaxPieces == 3

\* identifiers, an identifier with an escaped ".", and brackets around an
\* index, "*" and slices
Pieces ==
    {IdSeg(<<"a">>), IdSeg(<<"a", "b">>), EscSeg(<<"a", ".", "b">>),
     IdxSeg(4), IdxSeg(2), BracketWildSeg,
     SliceSeg(<<1>>, <<3>>), SliceSeg(<<>>, <<3>>), SliceSeg(<<1>>, <<>>)}

InitTokens ==
    \E a \in SeqsUpTo(Pieces, MaxPieces) :
        \E d \in {x \in Docs : x = Fixture \/ Len(x.items) = 3} : InitWith(a, d)

SpecTokens == InitTokens /\ [][Next]_vars

\* a token is the text of its piece: a bracketed segment with both brackets
\* and its interior, an identifier as written (the backslash of an escaped
\* "." kept or taken out)
TokenOf(tok, piece) ==
    \/ tok = piece.text
    \/ piece.k = "esc" /\ tok = piece.keys[1]

\* C12: tokenize emits one token per bracketed segment, with both brackets
\* and the interior, one token per identifier between unescaped dots, none
\* that is empty, all in the order of the query; the identifier before a
\* "[" is a token of its own and "[4][2]" gives two tokens.
C12_TokensInOrder ==
    pc # "start" =>
        /\ Len(tokenize(query)) = Len(arg)
        /\ \A i \in 1..Len(arg) : TokenOf(tokenize(query)[i], arg[i])
        /\ pc # "raised" => Len(path) = Len(arg)

\* an identifier, then two bracketed segments one after the other
C12_Witness ==
    /\ pc = "parsed"
    /\ Len(arg) = 3
    /\ arg[1].k = "id"
    /\ arg[2].k = "idx"
    /\ arg[3].k = "idx"
    /\ tokenize(query) = <<arg[1].text, arg[2].text, arg[3].text>>

(***************************************************************************)
(* C13: quoted keys                                                        *)
(***************************************************************************)
MaxQuotedLen == 3

\* an ordinary character and the two quote characters
QuotedChars == {"k", "\"", "'"}

QuotedTexts == {t \in SeqsUpTo(QuotedChars, MaxQuotedLen) : t # <<>>}

QuotedSeg(t) == Seg("quoted", <<"[">> \o t \o <<"]">>, <<t>>, 0, <<>>, <<>>)

InitQuoted == \E t \in QuotedTexts : \E d \in Docs : InitWith(<<QuotedSeg(t)>>, d)

SpecQuoted == InitQuoted /\ [][Next]_vars

\* the text between the quotes of a text wholly wrapped in one matching
\* pair of quote characters, and any other text as it is
Unquote(t) ==
    IF Len(t) >= 2 /\ t[1] \in QUOTES_SYMBOL /\ t[Len(t)] = t[1]
    THEN SubSeq(t, 2, Len(t) - 1)
    ELSE t

\* C13: a bracketed key parses to one plain selector whose key is the text
\* between the quotes when the text is wholly wrapped in a matching pair of
\* quotes, and the whole text, quote characters included, otherwise.
C13_QuotesUnwrap ==
    arg[Len(arg)].k = "quoted" =>
        /\ pc # "raised"
        /\ pc \in {"parsed", "finding", "returned"} =>
              path = <<Node("Index",
                            KeysValue("list", <<StrKey(Unquote(arg[Len(arg)].keys[1]))>>))>>

(***************************************************************************)
(* C14: the result set after a node                                        *)
(***************************************************************************)
\* the positions a node is applied to: the entries of a batch, or the one
\* match find starts with
Positions(d) == IF d.cls = "list" THEN Len(d.items) ELSE 1

\* C14 as claimed: every application of a node in find leaves a flat list
\* that is not empty, whose entries are each one match or one NotFound, and
\* an application that resolves nothing leaves exactly one NotFound.
C14_OneNotFound ==
    [][(pc = "finding" /\ pc' = "finding" /\ nodes' # nodes) =>
          /\ data'.cls = "list"
          /\ data'.items # <<>>
          /\ \A i \in 1..Len(data'.items) :
                /\ data'.items[i].cls \in {"Match", "MatchNotFound"}
                /\ data'.items[i].items = <<>>
                /\ "cls" \notin DOMAIN data'.items[i].value
          /\ (\A i \in 1..Len(data'.items) : data'.items[i].cls = "MatchNotFound") =>
                Len(data'.items) = 1]_vars

\* C14 amended: every application of a node in find leaves a flat list that
\* is not empty, whose entries are each one match (of a value, never of a
\* match or a list) or one NotFound; when nothing resolved at any position
\* it holds exactly one NotFound for each position the node was applied to.
C14_FlatResultSet ==
    [][(pc = "finding" /\ pc' = "finding" /\ nodes' # nodes) =>
          /\ data'.cls = "list"
          /\ data'.items # <<>>
          /\ \A i \in 1..Len(data'.items) :
                /\ data'.items[i].cls \in {"Match", "MatchNotFound"}
                /\ data'.items[i].items = <<>>
                /\ "cls" \notin DOMAIN data'.items[i].value
          /\ (\A i \in 1..Len(data'.items) : data'.items[i].cls = "MatchNotFound") =>
                Len(data'.items) = Positions(data)]_vars

\* the second node of a path was applied to a batch of several positions
\* and resolved at none of them: one NotFound for each
C14_Witness ==
    /\ pc = "finding"
    /\ Len(path) = 2
    /\ nodes = <<>>
    /\ data.cls = "list"
    /\ Len(data.items) >= 2
    /\ \A i \in 1..Len(data.items) : data.items[i].cls = "MatchNotFound"

(***************************************************************************)
(* C15: the path of no node                                                *)
(***************************************************************************)
MaxSpaces == 2

Spaces(n) == [i \in 1..n |-> SPACE_SYMBOL]

\* queries of spaces only, and queries of spaces before "$" or a key
InitEmpty ==
    \E n \in 0..MaxSpaces : \E c \in {<<>>, <<RootSeg>>, <<IdSeg(<<"a">>)>>} :
        \E d \in Docs : InitWith(<<TextSeg(Spaces(n))>> \o c, d)

SpecEmpty == InitEmpty /\ [][Next]_vars

\* C15: find on a compiled path of no node returns the value it starts
\* with: a list of exactly one match, whose value is the document.
C15_EmptyPathReturnsDocument ==
    (pc = "returned" /\ path = <<>>) => ValuesOf(result) = <<doc>>

(***************************************************************************)
(* C16: tokens with an asterisk                                            *)
(***************************************************************************)
MaxStarLen == 3

StarTexts == {t \in SeqsUpTo({"a", "*"}, MaxStarLen) : t # <<>>}

StarSeg(t) == Seg("star", t, <<t>>, 0, <<>>, <<>>)
BracketStarSeg(t) == Seg("bstar", <<"[">> \o t \o <<"]">>, <<t>>, 0, <<>>, <<>>)

\* a text of "a" and "*", bare and in brackets
InitStar ==
    \E t \in StarTexts : \E sg \in {StarSeg(t), BracketStarSeg(t)} : \E d \in Docs :
        InitWith(<<sg>>, d)

SpecStar == InitStar /\ [][Next]_vars

\* C16: a token is a Wildcard node only when it is "*" or "[*]"; a token
\* whose text holds an asterisk among other characters is a selector of
\* that literal key.
C16_WildcardOnlyExact ==
    (arg[Len(arg)].k \in {"star", "bstar"} /\ pc \in {"parsed", "finding", "returned"}) =>
        /\ Len(path) = 1
        /\ path[1] = IF arg[Len(arg)].keys[1] = <<WILDCARD_SYMBOL>>
                     THEN Node("Wildcard", NoValue)
                     ELSE Node("Index", KeysValue("list", <<StrKey(arg[Len(arg)].keys[1])>>))

====
